---- MODULE Spec2Model ----
(***************************************************************************)
(* A model of scripts/symbol.py: the pools of long-lived tool processes    *)
(* (ProcessCache), the shutdown path (CloseAllPipes, PipeTermHandler), the *)
(* symbol lookup (SymbolInformation, SymbolInformationForSet and the two   *)
(* resolvers behind it) and the architecture detection (SetAbi).           *)
(*                                                                         *)
(* The module holds these specifications over one set of variables:        *)
(*   SpecPool      the process pools, GetProcess taken one statement group *)
(*                 at a time so that a signal can arrive in the middle;    *)
(*   SpecSym       the symbol lookup, one action per public call;          *)
(*   SpecAbi       SetAbi applied to a list of log lines;                  *)
(*   SpecSpawn     SpecSym with tools that cannot be started;              *)
(*   SpecExchange  one batch of the line resolver, statement by statement; *)
(*   SpecOrder     SpecSym on addresses of different lengths;              *)
(*   SpecCache     the three caches, with a full pool and the demangler.   *)
(***************************************************************************)
EXTENDS Integers, Sequences, FiniteSets, TLC

(***************************************************************************)
(* Bounds of the model.                                                    *)
(***************************************************************************)
\* Number of processes one pool spawns in one run.
MaxSpawn == 11
\* Number of GetProcess calls that find their command already pooled.
MaxHits == 1
\* Number of calls of CloseAllPipes made in a row.
MaxCloses == 2

(***************************************************************************)
(* Program constants.                                                      *)
(***************************************************************************)
\* ProcessCache._PIPE_MAX_OPEN
_PIPE_MAX_OPEN == 10

\* Number of distinct symbol files, hence of distinct llvm-symbolizer
\* commands: one more than a pool holds.
NumSymbolFiles == _PIPE_MAX_OPEN + 1

VARIABLES
  \* ---- process pools -------------------------------------------------
  cmd2pipe,   \* ProcessCache._cmd2pipe, a class attribute that GetProcess
              \* mutates in place: ONE dict for both instances.
              \* A function: command -> pipe.
  lru,        \* ProcessCache._lru, rebound on the instance by every
              \* GetProcess: one list per instance.
              \* [Pools -> Seq(<<command, pipe>>)], most recently used first.
  alive,      \* the pipes whose child process has not been terminated
  spawned,    \* spawned[pool]: the number of processes SpawnProcess of that
              \* pool has created; its k-th one is the pipe <<pool, k>>
  objdump,    \* the llvm-objdump child of CallObjdumpForSet (never pooled):
              \* "none" or "running"
  pc,         \* where the program is: "idle", inside GetProcess ("evict",
              \* "terminate", "register"), or "exited"
  call,       \* the locals of the running (or last) GetProcess call
  useOrder,   \* history: per pool, the pipes in the order of their most
              \* recent return from GetProcess, most recent first
  ret,        \* the pipe the last completed GetProcess returned
  nHits,      \* number of calls that found their command pooled
  nUsed,      \* number of distinct llvm-symbolizer commands used so far
  closes,     \* number of CloseAllPipes calls made since the last GetProcess
  \* ---- symbol lookup -------------------------------------------------
  ARCH,             \* the global ARCH
  addr2lineCache,   \* _SYMBOL_INFORMATION_ADDR2LINE_CACHE: lib -> addr -> records
  objdumpCache,     \* _SYMBOL_INFORMATION_OBJDUMP_CACHE: lib -> addr -> (symbol, offset)
  demangleCache,    \* _SYMBOL_DEMANGLING_CACHE: mangled symbol -> demangled symbol
  req,              \* the last public call: its function, lib and addresses
  res,              \* what that call returned
  io,               \* the external-tool I/O that call performed
  \* ---- architecture detection ----------------------------------------
  environ,          \* os.environ: the two toolchain variables
  lines,            \* the log lines SetAbi is given
  setAbi,           \* "not called", or how SetAbi ended: "returned", "raised"
  \* ---- one batch of the line resolver, statement by statement ---------
  xpc,              \* where the loop of lines 287-310 stands
  x_addrs,          \* addrs: the addresses still to be asked, current one first
  stdin,            \* lines written to the child it has not consumed yet
  stdout,           \* lines the child has printed that were not read yet
  x_records,        \* records
  x_first,          \* first
  x_symbol,         \* symbol
  stored,           \* the entries added to addr_cache: addr -> records
  hist              \* per address, the writes and reads made for it, in order

poolVars == <<cmd2pipe, lru, alive, spawned, objdump, pc, call, useOrder,
              ret, nHits, nUsed, closes>>

exchVars == <<xpc, x_addrs, stdin, stdout, x_records, x_first, x_symbol,
              stored, hist>>

symVars == <<ARCH, addr2lineCache, objdumpCache, demangleCache, req, res, io,
             environ, lines, setAbi, exchVars>>

vars == <<poolVars, symVars>>

(***************************************************************************)
(* The two pools and the commands their callers build.                     *)
(***************************************************************************)
\* _PIPE_ADDR2LINE_CACHE = ProcessCache()
ADDR2LINE == "_PIPE_ADDR2LINE_CACHE"
\* _PIPE_CPPFILT_CACHE = ProcessCache()
CPPFILT == "_PIPE_CPPFILT_CACHE"
Pools == {ADDR2LINE, CPPFILT}

\* cmd of CallLlvmSymbolizerForSet: the tool, fixed flags and "--obj=" + symbols.
SymbolizerCmd(symbols) == <<"llvm-symbolizer", symbols>>
\* cmd of CallCppFilt: [_CACHED_CXX_FILT].
CppFiltCmd == <<"llvm-cxxfilt">>

NoPipe == <<>>
NoCall == [pool |-> "", cmd |-> <<>>, kind |-> "none", lruAtCall |-> <<>>,
           orderAtCall |-> <<>>, evicted |-> <<>>, pipe |-> NoPipe]

(***************************************************************************)
(* ProcessCache: the statements of GetProcess, as functions of the state.  *)
(***************************************************************************)
\* "if cmd_tuple in self._cmd2pipe"
Pooled(cmd) == cmd \in DOMAIN cmd2pipe

\* A hit that leaves the list as it is: first in, first out.
LruAfterHitNoMove(l, cmd, pipe) == l

\* A hit that puts the channel last, where the next eviction takes it.
LruAfterHitToBack(l, cmd, pipe) ==
  SelectSeq(l, LAMBDA i : i[1] # cmd) \o <<<<cmd, pipe>>>>

\* "self._lru = [(cmd_tuple, pipe)] + [i for i in self._lru if i[0] != cmd_tuple]"
LruAfterHit(l, cmd, pipe) ==
  <<<<cmd, pipe>>>> \o SelectSeq(l, LAMBDA i : i[1] # cmd)

\* The loop test with ">" for ">=": one channel too many stays open.
TooManyOpenOffByOne(l) == Len(l) > _PIPE_MAX_OPEN

\* "while len(self._lru) >= self._PIPE_MAX_OPEN"
TooManyOpen(l) == Len(l) >= _PIPE_MAX_OPEN

\* "self._lru.pop()": the entry removed, and the list left.
LruLast(l) == l[Len(l)]
LruPopped(l) == SubSeq(l, 1, Len(l) - 1)

\* "del self._cmd2pipe[open_cmd]"
DelCmd(m, cmd) == [c \in (DOMAIN m) \ {cmd} |-> m[c]]

\* "self._cmd2pipe[cmd_tuple] = pipe"
PutCmd(m, cmd, pipe) ==
  [c \in (DOMAIN m) \cup {cmd} |-> IF c = cmd THEN pipe ELSE m[c]]

\* "self._lru = [(cmd_tuple, pipe)] + self._lru"
LruAfterSpawn(l, cmd, pipe) == <<<<cmd, pipe>>>> \o l

\* TerminateProcess: close stdin and stdout, terminate, wait. On a process
\* that was terminated before, each of the four is a no-op.
TerminateProcess(live, pipe) == live \ {pipe}

\* The pipes of a list of (command, pipe) entries.
PipesOf(l) == {l[i][2] : i \in 1..Len(l)}

\* History only: pipe p has just been returned by GetProcess.
Returned(order, p) == <<p>> \o SelectSeq(order, LAMBDA q : q # p)

\* Every second entry is terminated and dropped, the others are skipped:
\* what removing from the list while iterating over it does.
KillAllProcessesSkipping(live, l) ==
  [alive |-> live \ {l[i][2] : i \in {j \in 1..Len(l) : j % 2 = 1}},
   lru   |-> SelectSeq(l, LAMBDA e :
               \E j \in 1..Len(l) : j % 2 = 0 /\ l[j] = e)]

\* KillAllProcesses: every pipe of self._lru is terminated; "_cmd2pipe = {}"
\* and "_lru = []" bind two locals, so the attributes keep their values.
KillAllProcesses(live, l) ==
  [alive |-> live \ PipesOf(l), lru |-> l]

\* History only: the number of distinct llvm-symbolizer commands used.
UsedAfter(cmd) ==
  IF cmd[1] = "llvm-symbolizer" /\ cmd[2] > nUsed THEN cmd[2] ELSE nUsed

(***************************************************************************)
(* The symbol lookup before any call.                                      *)
(***************************************************************************)
\* Python's None.
None == <<"None">>

NoRequest == [fn |-> "none", lib |-> "", addrs |-> {}]

\* What a public call returns: None, a dict addr -> list of records
\* (SymbolInformationForSet) or a list of records (SymbolInformation).
EmptyDict == [k \in {} |-> None]
ReturnNone == [kind |-> "None", dict |-> EmptyDict, list |-> <<>>]
ReturnDict(d) == [kind |-> "dict", dict |-> d, list |-> <<>>]
ReturnList(l) == [kind |-> "list", dict |-> EmptyDict, list |-> l]
NoResult == ReturnNone

\* No external-tool I/O: no GetProcess call, no address written to the
\* symbolizer, no llvm-objdump started.
NoIO == [acquires |-> 0, written |-> <<>>, objdumps |-> <<>>]

\* "ARCH = None"
ArchNone == "None"

\* The caches are empty and no public call has been made.
SymFresh ==
  /\ addr2lineCache = EmptyDict    \* _SYMBOL_INFORMATION_ADDR2LINE_CACHE = {}
  /\ objdumpCache = EmptyDict      \* _SYMBOL_INFORMATION_OBJDUMP_CACHE = {}
  /\ demangleCache = EmptyDict     \* _SYMBOL_DEMANGLING_CACHE = {}
  /\ req = NoRequest
  /\ res = NoResult
  /\ io = NoIO

\* os.environ.get(var) of a variable that is not set.
Unset == ""
ToolchainVars == {"ANDROID_TOOLCHAIN_2ND_ARCH", "ANDROID_TOOLCHAIN"}

\* SetAbi has not been called; no toolchain variable is set.
AbiIdle ==
  /\ environ = [v \in ToolchainVars |-> Unset]
  /\ lines = <<>>
  /\ setAbi = "not called"

\* The loop of lines 287-310 is not running.
ExchangeIdle ==
  /\ xpc = "idle"
  /\ x_addrs = <<>>
  /\ stdin = <<>>
  /\ stdout = <<>>
  /\ x_records = <<>>
  /\ x_first = FALSE
  /\ x_symbol = <<>>
  /\ stored = EmptyDict
  /\ hist = EmptyDict

\* The symbol lookup is not used (SpecPool).
SymIdle == ARCH = ArchNone /\ SymFresh /\ AbiIdle /\ ExchangeIdle

(***************************************************************************)
(* SpecPool: the pools, step by step.                                      *)
(***************************************************************************)
PoolIdle ==
  /\ cmd2pipe = [c \in {} |-> NoPipe]
  /\ lru = [p \in Pools |-> <<>>]
  /\ alive = {}
  /\ spawned = [p \in Pools |-> 0]
  /\ objdump = "none"
  /\ pc = "idle"
  /\ call = NoCall
  /\ useOrder = [p \in Pools |-> <<>>]
  /\ ret = NoPipe
  /\ nHits = 0
  /\ nUsed = 0
  /\ closes = 0

InitPool == PoolIdle /\ SymIdle

\* GetProcess, lines 72-78: the command is pooled.
GetProcessHit(pool, cmd) ==
  /\ pc = "idle"
  /\ objdump = "none"
  /\ Pooled(cmd)
  /\ nHits < MaxHits
  /\ LET pipe == cmd2pipe[cmd] IN
       /\ lru' = [lru EXCEPT ![pool] = LruAfterHit(@, cmd, pipe)]
       /\ ret' = pipe
       /\ useOrder' = [useOrder EXCEPT ![pool] = Returned(@, pipe)]
       /\ call' = [pool |-> pool, cmd |-> cmd, kind |-> "hit",
                   lruAtCall |-> lru[pool], orderAtCall |-> useOrder[pool],
                   evicted |-> <<>>, pipe |-> pipe]
  /\ nHits' = nHits + 1
  /\ nUsed' = UsedAfter(cmd)
  /\ closes' = 0
  /\ UNCHANGED symVars
  /\ UNCHANGED <<cmd2pipe, alive, spawned, objdump, pc>>

\* GetProcess, lines 72-74 and 80: the command is not pooled.
GetProcessMiss(pool, cmd) ==
  /\ pc = "idle"
  /\ objdump = "none"
  /\ ~Pooled(cmd)
  /\ spawned[pool] < MaxSpawn
  /\ call' = [pool |-> pool, cmd |-> cmd, kind |-> "miss",
              lruAtCall |-> lru[pool], orderAtCall |-> useOrder[pool],
              evicted |-> <<>>, pipe |-> NoPipe]
  /\ pc' = "evict"
  /\ nUsed' = UsedAfter(cmd)
  /\ closes' = 0
  /\ UNCHANGED symVars
  /\ UNCHANGED <<cmd2pipe, lru, alive, spawned, objdump, useOrder, ret, nHits>>

\* Lines 83-85: the loop test holds; pop the last entry, drop its command.
EvictPop ==
  /\ pc = "evict"
  /\ TooManyOpen(lru[call.pool])
  /\ LET open == LruLast(lru[call.pool]) IN
       /\ lru' = [lru EXCEPT ![call.pool] = LruPopped(@)]
       /\ cmd2pipe' = DelCmd(cmd2pipe, open[1])
       /\ call' = [call EXCEPT !.evicted = Append(@, open[2])]
  /\ pc' = "terminate"
  /\ UNCHANGED symVars
  /\ UNCHANGED <<alive, spawned, objdump, useOrder, ret, nHits, nUsed, closes>>

\* Line 86: TerminateProcess(open_pipe), then back to the loop test.
EvictTerminate ==
  /\ pc = "terminate"
  /\ alive' = TerminateProcess(alive, call.evicted[Len(call.evicted)])
  /\ pc' = "evict"
  /\ UNCHANGED symVars
  /\ UNCHANGED <<cmd2pipe, lru, spawned, objdump, call, useOrder, ret,
                 nHits, nUsed, closes>>

\* Lines 83 and 89: the loop test fails; SpawnProcess(cmd).
Spawn ==
  /\ pc = "evict"
  /\ ~TooManyOpen(lru[call.pool])
  /\ LET pipe == <<call.pool, spawned[call.pool] + 1>> IN
       /\ spawned' = [spawned EXCEPT ![call.pool] = @ + 1]
       /\ alive' = alive \cup {pipe}
       /\ call' = [call EXCEPT !.pipe = pipe]
  /\ pc' = "register"
  /\ UNCHANGED symVars
  /\ UNCHANGED <<cmd2pipe, lru, objdump, useOrder, ret, nHits, nUsed, closes>>

\* Lines 90-92: register the new pipe and return it.
Register ==
  /\ pc = "register"
  /\ cmd2pipe' = PutCmd(cmd2pipe, call.cmd, call.pipe)
  /\ lru' = [lru EXCEPT ![call.pool] = LruAfterSpawn(@, call.cmd, call.pipe)]
  /\ useOrder' = [useOrder EXCEPT ![call.pool] = Returned(@, call.pipe)]
  /\ ret' = call.pipe
  /\ pc' = "idle"
  /\ UNCHANGED symVars
  /\ UNCHANGED <<alive, spawned, objdump, call, nHits, nUsed, closes>>

\* What CloseAllPipes does to the pools: KillAllProcesses of the one, then
\* of the other.
AfterCloseAllPipes ==
  LET a == KillAllProcesses(alive, lru[ADDR2LINE])
      c == KillAllProcesses(a.alive, lru[CPPFILT])
  IN  [alive |-> c.alive,
       lru   |-> [p \in Pools |-> IF p = ADDR2LINE THEN a.lru ELSE c.lru]]

\* CloseAllPipes, called by the program between two lookups.
CloseAllPipes ==
  /\ pc = "idle"
  /\ objdump = "none"
  /\ closes < MaxCloses
  /\ alive' = AfterCloseAllPipes.alive
  /\ lru' = AfterCloseAllPipes.lru
  /\ closes' = closes + 1
  /\ UNCHANGED symVars
  /\ UNCHANGED <<cmd2pipe, spawned, objdump, pc, call, useOrder, ret,
                 nHits, nUsed>>

\* The process is gone, and with it the pools and every local; the children
\* that were not terminated live on.
Exited ==
  /\ pc' = "exited"
  /\ cmd2pipe' = [c \in {} |-> NoPipe]
  /\ lru' = [p \in Pools |-> <<>>]
  /\ call' = NoCall
  /\ useOrder' = [p \in Pools |-> <<>>]
  /\ ret' = NoPipe
  /\ UNCHANGED symVars
  /\ UNCHANGED <<spawned, objdump, nHits, nUsed, closes>>

\* atexit.register(CloseAllPipes): the normal end of the process.
AtExit ==
  /\ pc = "idle"
  /\ objdump = "none"
  /\ alive' = AfterCloseAllPipes.alive
  /\ Exited

\* PipeTermHandler: SIGABRT, SIGINT or SIGTERM arrives between any two
\* statements; CloseAllPipes, then os._exit(0).
PipeTermHandler ==
  /\ pc # "exited"
  /\ alive' = AfterCloseAllPipes.alive
  /\ Exited

\* CallObjdumpForSet, line 396: the llvm-objdump child is started with
\* subprocess.Popen and kept in a local only.
ObjdumpPopen ==
  /\ pc = "idle"
  /\ objdump = "none"
  /\ objdump' = "running"
  /\ UNCHANGED symVars
  /\ UNCHANGED <<cmd2pipe, lru, alive, spawned, pc, call, useOrder, ret,
                 nHits, nUsed, closes>>

\* CallObjdumpForSet, lines 397-428: the child's output has been read.
ObjdumpClose ==
  /\ pc = "idle"
  /\ objdump = "running"
  /\ objdump' = "none"
  /\ UNCHANGED symVars
  /\ UNCHANGED <<cmd2pipe, lru, alive, spawned, pc, call, useOrder, ret,
                 nHits, nUsed, closes>>

\* The callers of GetProcess: CallLlvmSymbolizerForSet asks its pool for the
\* command of a symbol file (the symbol files are numbered in the order of
\* their first use), CallCppFilt asks its pool for the demangler.
SymbolizerGetProcessHit ==
  \E i \in 1..NumSymbolFiles :
    i <= nUsed + 1 /\ GetProcessHit(ADDR2LINE, SymbolizerCmd(i))

SymbolizerGetProcessMiss ==
  \E i \in 1..NumSymbolFiles :
    i <= nUsed + 1 /\ GetProcessMiss(ADDR2LINE, SymbolizerCmd(i))

CppFiltGetProcessHit == GetProcessHit(CPPFILT, CppFiltCmd)

CppFiltGetProcessMiss == GetProcessMiss(CPPFILT, CppFiltCmd)

NextPool ==
  \/ SymbolizerGetProcessHit
  \/ SymbolizerGetProcessMiss
  \/ CppFiltGetProcessHit
  \/ CppFiltGetProcessMiss
  \/ EvictPop
  \/ EvictTerminate
  \/ Spawn
  \/ Register
  \/ CloseAllPipes
  \/ AtExit
  \/ PipeTermHandler
  \/ ObjdumpPopen
  \/ ObjdumpClose

SpecPool == InitPool /\ [][NextPool]_vars

(***************************************************************************)
(* The claims about the pools, checked under SpecPool.                     *)
(***************************************************************************)
\* The un-terminated processes that SpawnProcess of one pool created.
AliveSpawnedBy(pool) == {p \in alive : p[1] = pool}

\* The pipe, among those of the list l, whose most recent return from
\* GetProcess is the oldest.
OldestReturned(order, l) ==
  LET mine == SelectSeq(order, LAMBDA p : p \in PipesOf(l))
  IN  mine[Len(mine)]

\* The last GetProcess call found its command not pooled and the pool full.
EvictingCall ==
  call.kind = "miss" /\ Len(call.lruAtCall) = _PIPE_MAX_OPEN

\* C1: at every moment, also between the statements of GetProcess, a pool
\* holds at most 10 channels and at most 10 of the processes it spawned are
\* un-terminated.
C1_PoolNeverExceedsMax ==
  \A pool \in Pools :
    /\ Len(lru[pool]) <= _PIPE_MAX_OPEN
    /\ Cardinality(AliveSpawnedBy(pool)) <= _PIPE_MAX_OPEN

\* C1, its case: a full pool has evicted a channel and spawned the new
\* process, which is not registered yet.
C1_Witness ==
  /\ pc = "register"
  /\ Len(call.evicted) = 1
  /\ Cardinality(AliveSpawnedBy(call.pool)) = _PIPE_MAX_OPEN

\* C2: a GetProcess call for a command that is not pooled, made while the
\* pool holds 10 channels, evicts exactly one channel: the one whose most
\* recent return from GetProcess is the oldest; its process is terminated
\* before the new one is spawned, and the other 9 channels stay pooled, in
\* their order, behind the new one.
C2_EvictsExactlyTheLeastRecentlyUsed ==
  EvictingCall =>
    /\ Len(call.evicted) <= 1
    /\ Len(call.evicted) = 1 =>
         call.evicted[1] = OldestReturned(call.orderAtCall, call.lruAtCall)
    /\ pc = "register" =>
         /\ Len(call.evicted) = 1
         /\ call.evicted[1] \notin alive
         /\ call.pipe \in alive
    /\ pc = "idle" =>
         /\ Len(call.evicted) = 1
         /\ lru[call.pool] =
              <<<<call.cmd, call.pipe>>>>
                \o SubSeq(call.lruAtCall, 1, _PIPE_MAX_OPEN - 1)
         /\ \A i \in 1.._PIPE_MAX_OPEN - 1 :
              /\ call.lruAtCall[i][1] \in DOMAIN cmd2pipe
              /\ cmd2pipe[call.lruAtCall[i][1]] = call.lruAtCall[i][2]

\* C2, its case: the call has returned, and the channel it evicted is not the
\* first one spawned, because that one was returned again in between.
C2_Witness ==
  /\ EvictingCall
  /\ pc = "idle"
  /\ nHits > 0
  /\ Len(call.evicted) = 1
  /\ call.evicted[1] # <<ADDR2LINE, 1>>
  /\ ret = call.pipe

\* C3 (as claimed): after CloseAllPipes has returned the pools hold no
\* channel, and the pipe a GetProcess call returns is never one whose process
\* was terminated.
C3_KillAllProcessesEmptiesThePool ==
  /\ (pc = "idle" /\ closes > 0) => \A pool \in Pools : lru[pool] = <<>>
  /\ (pc = "idle" /\ closes = 0 /\ ret # NoPipe) => ret \in alive

C5_NoChildOutlivesTheHandler ==
  pc = "exited" => (alive = {} /\ objdump = "none")

(***************************************************************************)
(* The symbol lookup: addresses, libraries and the external tools.         *)
(***************************************************************************)
\* Largest number of addresses in one batch.
MaxBatch == 2

\* The addresses asked for: hexadecimal strings, as the callers cut them out
\* of the log.
Addrs == {"4", "5", "8"}

\* The characters of an address string, as digit values.
Digits(a) ==
  CASE a = "4"  -> <<4>>
    [] a = "5"  -> <<5>>
    [] a = "8"  -> <<8>>
    [] a = "10" -> <<1, 0>>

\* "int(addr, 16)"
RECURSIVE HexVal(_)
HexVal(d) ==
  IF d = <<>> THEN 0 ELSE 16 * HexVal(SubSeq(d, 1, Len(d) - 1)) + d[Len(d)]

\* Python's "<" on two strings of hexadecimal digits: character by
\* character, a proper prefix first.
RECURSIVE StrLess(_, _)
StrLess(c, d) ==
  IF d = <<>> THEN FALSE
  ELSE IF c = <<>> THEN TRUE
  ELSE IF c[1] # d[1] THEN c[1] < d[1]
  ELSE StrLess(Tail(c), Tail(d))

\* "sorted(unique_addrs)": a set of strings, sorted as strings.
RECURSIVE Sorted(_)
Sorted(S) ==
  IF S = {} THEN <<>>
  ELSE LET m == CHOOSE x \in S :
                  \A y \in S \ {x} : StrLess(Digits(x), Digits(y))
       IN  <<m>> \o Sorted(S \ {m})

\* The libraries asked for: one whose unstripped file is in the symbols
\* directory, one with no file anywhere, one that names a directory, and the
\* empty name.
LIBC == "/system/lib/libc.so"
LIBGONE == "/system/lib/libgone.so"
LIBDIR == "/system/lib"
Libs == {"", LIBC, LIBGONE, LIBDIR}

\* Ten more libraries, stripped of nothing and found under their own path:
\* with libc.so they are one more than a pool holds channels.
OtherLibs ==
  <<"/data/lib01.so", "/data/lib02.so", "/data/lib03.so", "/data/lib04.so",
    "/data/lib05.so", "/data/lib06.so", "/data/lib07.so", "/data/lib08.so",
    "/data/lib09.so", "/data/lib10.so">>

\* "symbols = SYMBOLS_DIR + lib; if not os.path.exists(symbols): symbols = lib;
\*  if not os.path.exists(symbols): return None": the path found, or "".
SymbolsPath(lib) ==
  CASE lib = LIBC   -> "out/symbols/system/lib/libc.so"
    [] lib = LIBDIR -> "out/symbols/system/lib"
    [] \E i \in 1..Len(OtherLibs) : lib = OtherLibs[i] -> lib
    [] OTHER        -> ""

\* "os.path.isdir(symbols)"
IsDir(symbols) == symbols = "out/symbols/system/lib"

\* The .text section of libc.so: three functions, f at 0, g at 8, h at 16;
\* the instruction at 4 is four bytes long, so 5 is no instruction address.
Instructions == {0, 2, 4, 8, 12, 16, 20}
FunctionStart(a) == IF a < 8 THEN 0 ELSE IF a < 16 THEN 8 ELSE 16
FunctionName(a) ==
  IF a < 8 THEN <<"f">> ELSE IF a < 16 THEN <<"g">> ELSE <<"h">>

\* What llvm-objdump prints for [start, stop), as the comments of
\* CallObjdumpForSet describe it: a function line "<addr> <symbol>:" where a
\* function begins, "<addr> <symbol+0xoff>:" where the range begins inside a
\* function, and one line "<addr>: ..." per instruction, addresses ascending.
RECURSIVE Disassembly(_, _)
Disassembly(todo, first) ==
  IF todo = {} THEN <<>>
  ELSE LET a == CHOOSE x \in todo : \A y \in todo : x <= y
           header == [kind |-> "func", addr |-> a, symbol |-> FunctionName(a),
                      offset |-> a - FunctionStart(a)]
       IN  (IF first \/ FunctionStart(a) = a THEN <<header>> ELSE <<>>)
           \o <<[kind |-> "asm", addr |-> a]>>
           \o Disassembly(todo \ {a}, FALSE)

Listing(start, stop) ==
  Disassembly({a \in Instructions : start <= a /\ a < stop}, TRUE)

\* What llvm-symbolizer knows of an address of libc.so: the code at 4 was
\* inlined from another function (two frames), any other address has one.
Frames(v) == IF v \in {4, 5} THEN 2 ELSE 1

\* The lines of the symbolizer's output.
Blank == <<>>
SymbolLine(a, i) == <<"fn", a, i>>
LocationLine(a, i) == <<"file:line", a, i>>

\* What the symbolizer child delivers after an address was written to it:
\* "ok": a symbol line and a location line per frame, innermost first, and
\*       the blank line that answers the blank line written after the first
\*       pair; "eof": the child has died, every readline returns "".
RECURSIVE FrameLines(_, _, _)
FrameLines(a, i, n) ==
  IF i > n THEN <<>>
  ELSE <<SymbolLine(a, i), LocationLine(a, i)>> \o FrameLines(a, i + 1, n)

ToolStream(a, outcome) ==
  IF outcome = "ok"
  THEN FrameLines(a, 1, Frames(HexVal(Digits(a)))) \o <<Blank>>
  ELSE <<>>

\* Per address asked of the child: it answers, it has died, or the write fails.
Outcomes == {"ok", "eof", "ioerror"}

(***************************************************************************)
(* The two resolvers and the driver, as functions of the state.            *)
(***************************************************************************)
\* "d[k] = v" and "d.update(e)" on dicts.
DictPut(d, k, v) == [x \in (DOMAIN d) \cup {k} |-> IF x = k THEN v ELSE d[x]]
DictUnion(d, e) ==
  [x \in (DOMAIN d) \cup (DOMAIN e) |-> IF x \in DOMAIN e THEN e[x] ELSE d[x]]

\* "for x in range(len(addrs)): ..." of both resolvers: the addresses the
\* cache knows go to the result, the others stay, in their sorted order.
KnownPart(addr_cache, unique_addrs) ==
  [a \in {x \in unique_addrs : x \in DOMAIN addr_cache} |-> addr_cache[a]]
UnknownPart(addr_cache, unique_addrs) ==
  SelectSeq(Sorted(unique_addrs), LAMBDA a : a \notin DOMAIN addr_cache)

\* A resolver that starts every call with a new dict for the library.
AddrCacheAlwaysNew(cache, lib) == EmptyDict

\* "lib in <cache>": the library's dict, or the new empty one.
AddrCacheOf(cache, lib) == IF lib \in DOMAIN cache THEN cache[lib] ELSE EmptyDict

\* The read loop of CallLlvmSymbolizerForSet, lines 293-305: pairs of lines
\* until a blank symbol line (readline gives "" at end of stream).
RECURSIVE ReadRecords(_)
ReadRecords(stream) ==
  LET symbol == IF stream = <<>> THEN Blank ELSE stream[1]
      location == IF Len(stream) < 2 THEN Blank ELSE stream[2]
  IN  IF symbol = Blank THEN <<>>
      ELSE <<<<symbol, location>>>> \o ReadRecords(SubSeq(stream, 3, Len(stream)))

\* The record of an address whose exchange raised IOError, line 308.
Degraded(lib) == <<None, <<"***Error", lib>>>>

\* The cache written only for the addresses whose exchange did not raise.
LineCacheSkippingDegraded(addr_cache, fresh) ==
  DictUnion(addr_cache,
            [a \in {x \in DOMAIN fresh :
                      fresh[x] = <<>> \/ fresh[x][1][1] # None} |-> fresh[a]])

\* "addr_cache[addr] = records", line 310, for every address asked.
LineCacheAfter(addr_cache, fresh) == DictUnion(addr_cache, fresh)

\* Lines 288-310 for one address: the records read, or on IOError the one
\* record (None, lib[1:] + "  ***Error: " + str(e)).
Exchange(lib, a, outcome) ==
  IF outcome = "ioerror" THEN <<Degraded(lib)>>
  ELSE ReadRecords(ToolStream(a, outcome))

\* The addresses CallLlvmSymbolizerForSet writes to the child, in order.
ToWrite(lib, unique_addrs) ==
  IF lib = "" \/ SymbolsPath(lib) = "" \/ IsDir(SymbolsPath(lib)) THEN <<>>
  ELSE UnknownPart(AddrCacheOf(addr2lineCache, lib), unique_addrs)

\* CallLlvmSymbolizerForSet(lib, unique_addrs): what it returns (None or a
\* dict), the cache it leaves, the GetProcess calls it made and the
\* addresses it wrote.
CallLlvmSymbolizerForSet(lib, unique_addrs, outcome) ==
  LET addr_cache == AddrCacheOf(addr2lineCache, lib)
      addrs == UnknownPart(addr_cache, unique_addrs)
      known == KnownPart(addr_cache, unique_addrs)
      registered == DictPut(addr2lineCache, lib, addr_cache)
      fresh == [a \in {addrs[i] : i \in 1..Len(addrs)} |->
                  Exchange(lib, a, outcome[a])]
  IN  IF lib = ""
      THEN [none |-> TRUE, dict |-> EmptyDict, cache |-> addr2lineCache,
            acquires |-> 0, written |-> <<>>]
      ELSE IF lib \in DOMAIN addr2lineCache /\ addrs = <<>>
      THEN [none |-> FALSE, dict |-> known, cache |-> addr2lineCache,
            acquires |-> 0, written |-> <<>>]
      ELSE IF SymbolsPath(lib) = "" \/ IsDir(SymbolsPath(lib))
      THEN [none |-> TRUE, dict |-> EmptyDict, cache |-> registered,
            acquires |-> 0, written |-> <<>>]
      ELSE [none |-> FALSE, dict |-> DictUnion(known, fresh),
            cache |-> DictPut(registered, lib, LineCacheAfter(addr_cache, fresh)),
            acquires |-> 1, written |-> addrs]

\* StripPC(addr)
StripPC(addr) == IF ARCH = "arm" THEN addr - (addr % 2) ELSE addr

\* The scan that takes the address of a header line for the start of the
\* function, whatever offset the header's symbol carries.
RECURSIVE ObjdumpScanHeaderIsStart(_, _, _, _, _, _)
ObjdumpScanHeaderIsStart(stream, addrs, addr_index, current_symbol, current_symbol_addr, result) ==
  IF stream = <<>> THEN result
  ELSE LET line == Head(stream) IN
    IF line.kind = "func"
    THEN ObjdumpScanHeaderIsStart(Tail(stream), addrs, addr_index, line.symbol,
                                  line.addr, result)
    ELSE LET target_addr == addrs[addr_index]
             i_target == StripPC(HexVal(Digits(target_addr)))
             found == DictPut(result, target_addr,
                              <<current_symbol, i_target - current_symbol_addr>>)
         IN  IF line.addr # i_target
             THEN ObjdumpScanHeaderIsStart(Tail(stream), addrs, addr_index,
                                           current_symbol, current_symbol_addr,
                                           result)
             ELSE IF addr_index + 1 > Len(addrs) THEN found
             ELSE ObjdumpScanHeaderIsStart(Tail(stream), addrs, addr_index + 1,
                                           current_symbol, current_symbol_addr,
                                           found)

\* The scan of the disassembly, lines 392-428: the entries it adds.
RECURSIVE ObjdumpScan(_, _, _, _, _, _)
ObjdumpScan(stream, addrs, addr_index, current_symbol, current_symbol_addr, result) ==
  IF stream = <<>> THEN result
  ELSE LET line == Head(stream) IN
    IF line.kind = "func"
    THEN ObjdumpScan(Tail(stream), addrs, addr_index, line.symbol,
                     line.addr - line.offset, result)
    ELSE LET target_addr == addrs[addr_index]
             i_target == StripPC(HexVal(Digits(target_addr)))
             found == DictPut(result, target_addr,
                              <<current_symbol, i_target - current_symbol_addr>>)
         IN  IF line.addr # i_target
             THEN ObjdumpScan(Tail(stream), addrs, addr_index, current_symbol,
                              current_symbol_addr, result)
             ELSE IF addr_index + 1 > Len(addrs) THEN found
             ELSE ObjdumpScan(Tail(stream), addrs, addr_index + 1,
                              current_symbol, current_symbol_addr, found)

\* "--start-address=" and "--stop-address=" of the llvm-objdump command.
ObjdumpRange(addrs) ==
  <<StripPC(HexVal(Digits(addrs[1]))),
    StripPC(HexVal(Digits(addrs[Len(addrs)]))) + 8>>

\* CallObjdumpForSet(lib, unique_addrs): what it returns, the cache it
\* leaves and the ranges llvm-objdump was started on.
CallObjdumpForSet(lib, unique_addrs) ==
  LET addr_cache == AddrCacheOf(objdumpCache, lib)
      addrs == UnknownPart(addr_cache, unique_addrs)
      known == KnownPart(addr_cache, unique_addrs)
      registered == DictPut(objdumpCache, lib, addr_cache)
      range == ObjdumpRange(addrs)
      fresh == ObjdumpScan(Listing(range[1], range[2]), addrs, 1, None, 0,
                           EmptyDict)
  IN  IF lib = ""
      THEN [none |-> TRUE, dict |-> EmptyDict, cache |-> objdumpCache,
            objdumps |-> <<>>]
      ELSE IF lib \in DOMAIN objdumpCache /\ addrs = <<>>
      THEN [none |-> FALSE, dict |-> known, cache |-> objdumpCache,
            objdumps |-> <<>>]
      ELSE IF SymbolsPath(lib) = ""
      THEN [none |-> TRUE, dict |-> EmptyDict, cache |-> registered,
            objdumps |-> <<>>]
      ELSE [none |-> FALSE, dict |-> DictUnion(known, fresh),
            cache |-> DictPut(registered, lib, DictUnion(addr_cache, fresh)),
            objdumps |-> <<range>>]

\* "%s+%d" whatever the offset is.
FormatSymbolAlwaysWithOffset(symbol, offset) == <<symbol[1], "+", offset>>

\* FormatSymbolWithOffset(symbol, offset): "%s+%d"
FormatSymbolWithOffset(symbol, offset) ==
  IF offset = 0 THEN symbol ELSE <<symbol[1], "+", offset>>

\* The line data of an address taken as it is, empty when there is none.
SourceInfoNoDefault(addr_to_line, addr) ==
  IF addr \in DOMAIN addr_to_line THEN addr_to_line[addr] ELSE <<>>

\* "source_info = addr_to_line.get(addr); if not source_info:
\*    source_info = [(None, None)]"
SourceInfo(addr_to_line, addr) ==
  LET got == IF addr \in DOMAIN addr_to_line THEN addr_to_line[addr] ELSE <<>>
  IN  IF got = <<>> THEN <<<<None, None>>>> ELSE got

\* Lines 215-227: one list of records per requested address.
MergedResult(addr_to_line, addr_to_objdump, unique_addrs) ==
  [addr \in unique_addrs |->
     LET source_info == SourceInfo(addr_to_line, addr)
         object_symbol_with_offset ==
           IF addr \in DOMAIN addr_to_objdump
           THEN FormatSymbolWithOffset(addr_to_objdump[addr][1],
                                       addr_to_objdump[addr][2])
           ELSE None
     IN  [i \in 1..Len(source_info) |->
            <<source_info[i][1], source_info[i][2], object_symbol_with_offset>>]]

\* Python's "not x" for what a resolver returned: None or an empty dict.
Falsy(r) == r.none \/ DOMAIN r.dict = {}

\* SymbolInformationForSet(lib, unique_addrs): what it returns, the two
\* caches it leaves and the external-tool I/O it performed.
SymbolInformationForSet(lib, unique_addrs, outcome) ==
  LET line == CallLlvmSymbolizerForSet(lib, unique_addrs, outcome)
      dump == CallObjdumpForSet(lib, unique_addrs)
      lineIO == [acquires |-> line.acquires, written |-> line.written,
                 objdumps |-> <<>>]
  IN  IF lib = ""
      THEN [ret |-> ReturnNone, lineCache |-> addr2lineCache,
            dumpCache |-> objdumpCache, io |-> NoIO]
      ELSE IF Falsy(line)
      THEN [ret |-> ReturnNone, lineCache |-> line.cache,
            dumpCache |-> objdumpCache, io |-> lineIO]
      ELSE IF Falsy(dump)
      THEN [ret |-> ReturnNone, lineCache |-> line.cache,
            dumpCache |-> dump.cache,
            io |-> [lineIO EXCEPT !.objdumps = dump.objdumps]]
      ELSE [ret |-> ReturnDict(MergedResult(line.dict, dump.dict, unique_addrs)),
            lineCache |-> line.cache, dumpCache |-> dump.cache,
            io |-> [lineIO EXCEPT !.objdumps = dump.objdumps]]

\* SymbolInformation(lib, addr):
\* "(info and info.get(addr)) or [(None, None, None)]"
SymbolInformation(lib, addr, outcome) ==
  LET info == SymbolInformationForSet(lib, {addr}, outcome)
      got == IF info.ret.kind = "dict" /\ addr \in DOMAIN info.ret.dict
             THEN info.ret.dict[addr] ELSE <<>>
  IN  [info EXCEPT !.ret =
         ReturnList(IF got = <<>> THEN <<<<None, None, None>>>> ELSE got)]

(***************************************************************************)
(* SpecSym: the symbol lookup, one action per public call.                 *)
(***************************************************************************)
\* GetProcess's loop, lines 83-86, run to its end.
RECURSIVE EvictWhileTooManyOpen(_)
EvictWhileTooManyOpen(st) ==
  IF TooManyOpen(st.lru)
  THEN EvictWhileTooManyOpen(
         [lru |-> LruPopped(st.lru),
          cmd2pipe |-> DelCmd(st.cmd2pipe, LruLast(st.lru)[1]),
          alive |-> TerminateProcess(st.alive, LruLast(st.lru)[2])])
  ELSE st

\* GetProcess(cmd) on a pool, from call to return: the pools it leaves.
GetProcess(pool, cmd) ==
  IF Pooled(cmd)
  THEN [cmd2pipe |-> cmd2pipe,
        lru |-> [lru EXCEPT ![pool] = LruAfterHit(@, cmd, cmd2pipe[cmd])],
        alive |-> alive, spawned |-> spawned]
  ELSE LET st == EvictWhileTooManyOpen(
                   [lru |-> lru[pool], cmd2pipe |-> cmd2pipe, alive |-> alive])
           pipe == <<pool, spawned[pool] + 1>>
       IN  [cmd2pipe |-> PutCmd(st.cmd2pipe, cmd, pipe),
            lru |-> [lru EXCEPT ![pool] = LruAfterSpawn(st.lru, cmd, pipe)],
            alive |-> st.alive \cup {pipe},
            spawned |-> [spawned EXCEPT ![pool] = @ + 1]]

\* The batches a caller asks for.
Batches == {S \in SUBSET Addrs : 1 <= Cardinality(S) /\ Cardinality(S) <= MaxBatch}

InitSym ==
  /\ PoolIdle
  /\ ARCH \in {"arm", "arm64"}
  /\ SymFresh
  /\ AbiIdle
  /\ ExchangeIdle

\* The state a public call leaves: r is what the function computed.
Returns(fn, lib, unique_addrs, r) ==
  /\ req' = [fn |-> fn, lib |-> lib, addrs |-> unique_addrs]
  /\ res' = r.ret
  /\ io' = r.io
  /\ addr2lineCache' = r.lineCache
  /\ objdumpCache' = r.dumpCache
  /\ IF r.io.acquires > 0
     THEN LET g == GetProcess(ADDR2LINE, SymbolizerCmd(SymbolsPath(lib)))
          IN  /\ cmd2pipe' = g.cmd2pipe
              /\ lru' = g.lru
              /\ alive' = g.alive
              /\ spawned' = g.spawned
     ELSE UNCHANGED <<cmd2pipe, lru, alive, spawned>>
  /\ UNCHANGED <<ARCH, objdump, pc, call, useOrder, ret, nHits, nUsed, closes>>
  /\ UNCHANGED <<demangleCache, environ, lines, setAbi>>
  /\ UNCHANGED exchVars

\* A caller asks SymbolInformationForSet for a batch of addresses of a library.
CallSymbolInformationForSet ==
  \E lib \in Libs, unique_addrs \in Batches :
    \E outcome \in [{ToWrite(lib, unique_addrs)[i] :
                       i \in 1..Len(ToWrite(lib, unique_addrs))} -> Outcomes] :
      Returns("SymbolInformationForSet", lib, unique_addrs,
              SymbolInformationForSet(lib, unique_addrs, outcome))

\* A caller asks SymbolInformation for one address of a library.
CallSymbolInformation ==
  \E lib \in Libs, addr \in Addrs :
    \E outcome \in [{ToWrite(lib, {addr})[i] :
                       i \in 1..Len(ToWrite(lib, {addr}))} -> Outcomes] :
      Returns("SymbolInformation", lib, {addr},
              SymbolInformation(lib, addr, outcome))

NextSym ==
  \/ CallSymbolInformationForSet
  \/ CallSymbolInformation

SpecSym == InitSym /\ [][NextSym]_vars

(***************************************************************************)
(* SpecAbi: the architecture detection.                                    *)
(***************************************************************************)
\* Largest number of log lines given to SetAbi.
MaxLines == 3

\* A log line, as the three patterns of SetAbi see it:
\*   abi   - group(1) of abi_line ("ABI: '(.*)'"), NoMatch if it does not match;
\*   trace - len(group(1)) of trace_line, 8 or 16, 0 if it does not match;
\*   asan  - len(group(1)) of asan_trace_line, 0 if it does not match.
NoMatch == "no match"
LogLine(abi, trace, asan) == [abi |-> abi, trace |-> trace, asan |-> asan]
LogLines ==
  { LogLine(NoMatch, 0, 0),      \* any other line
    LogLine("x86", 0, 0),        \* ABI: 'x86'
    LogLine("arm64", 0, 0),      \* ABI: 'arm64'
    LogLine("", 0, 0),           \* ABI: ''
    LogLine(NoMatch, 8, 0),      \* #00 pc 000374e0
    LogLine(NoMatch, 16, 0),     \* #00 pc 00000000000374e0
    LogLine(NoMatch, 0, 8),      \* #10 0xb5eeba5d  (/system/...)
    LogLine(NoMatch, 0, 10),     \* #0 0x11b35d33bf  (/system/...)
    LogLine("mips", 8, 0) }      \* #00 pc 000374e0  ABI: 'mips'

RECURSIVE LineLists(_)
LineLists(n) ==
  IF n = 0 THEN {<<>>}
  ELSE LineLists(n - 1)
       \cup {Append(ls, l) : ls \in {x \in LineLists(n - 1) : Len(x) = n - 1},
                             l \in LogLines}

\* The values of a toolchain variable: not set, or a path.
Toolchains ==
  {Unset, "linux-x86/arm/bin", "linux-x86/aarch64/bin", "linux-x86/mips/bin",
   "linux-x86/x86/bin", "linux-x86/unknown/bin"}

\* re.search("\/(aarch64|arm|mips|x86)\/", toolchain): group(1), or NoMatch.
ToolchainMatch(toolchain) ==
  CASE toolchain = "linux-x86/arm/bin"     -> "arm"
    [] toolchain = "linux-x86/aarch64/bin" -> "aarch64"
    [] toolchain = "linux-x86/mips/bin"    -> "mips"
    [] toolchain = "linux-x86/x86/bin"     -> "x86"
    [] OTHER                               -> NoMatch

\* GetAbiFromToolchain(toolchain_var, bits)
GetAbiFromToolchain(toolchain_var, bits) ==
  LET toolchain == environ[toolchain_var]
      abi == ToolchainMatch(toolchain)
  IN  IF toolchain = Unset THEN ArchNone
      ELSE IF abi = NoMatch THEN ArchNone
      ELSE IF abi = "aarch64" THEN "arm64"
      ELSE IF bits = 64 /\ abi = "x86" THEN "x86_64"
      ELSE IF bits = 64 /\ abi = "mips" THEN "mips64"
      ELSE abi

\* Get32BitArch()
Get32BitArch ==
  LET arch == GetAbiFromToolchain("ANDROID_TOOLCHAIN_2ND_ARCH", 32)
      arch2 == GetAbiFromToolchain("ANDROID_TOOLCHAIN", 32)
  IN  IF arch # ArchNone THEN arch
      ELSE IF arch2 # ArchNone THEN arch2
      ELSE "arm"

\* Get64BitArch()
Get64BitArch ==
  LET arch == GetAbiFromToolchain("ANDROID_TOOLCHAIN", 64)
  IN  IF arch # ArchNone THEN arch ELSE "arm64"

\* The loop of SetAbi that goes on after an ABI line, so that a later line
\* overrides what the ABI line said.
RECURSIVE ScanLinesPastAbi(_, _)
ScanLinesPastAbi(ls, arch) ==
  IF ls = <<>> THEN arch
  ELSE LET line == Head(ls) IN
    IF line.abi # NoMatch THEN ScanLinesPastAbi(Tail(ls), line.abi)
    ELSE IF line.trace # 0
    THEN (IF line.trace = 16 THEN Get64BitArch ELSE Get32BitArch)
    ELSE IF line.asan # 0
    THEN (IF line.asan > 8 THEN Get64BitArch
          ELSE ScanLinesPastAbi(Tail(ls), Get32BitArch))
    ELSE ScanLinesPastAbi(Tail(ls), arch)

\* "for line in lines: ..." of SetAbi, lines 511-534: the ARCH it leaves.
RECURSIVE ScanLines(_, _)
ScanLines(ls, arch) ==
  IF ls = <<>> THEN arch
  ELSE LET line == Head(ls) IN
    IF line.abi # NoMatch THEN line.abi
    ELSE IF line.trace # 0
    THEN (IF line.trace = 16 THEN Get64BitArch ELSE Get32BitArch)
    ELSE IF line.asan # 0
    THEN (IF line.asan > 8 THEN Get64BitArch
          ELSE ScanLines(Tail(ls), Get32BitArch))
    ELSE ScanLines(Tail(ls), arch)

\* "if ARCH is None"
NotArchOnlyNone(arch) == arch = ArchNone

\* "if not ARCH": ARCH is None or the empty string.
NotArch(arch) == arch = ArchNone \/ arch = ""

InitAbi ==
  /\ PoolIdle
  /\ ARCH = ArchNone
  /\ SymFresh
  /\ environ \in [ToolchainVars -> Toolchains]
  /\ lines \in LineLists(MaxLines)
  /\ setAbi = "not called"
  /\ ExchangeIdle

\* SetAbi(lines)
SetAbi ==
  /\ setAbi = "not called"
  /\ ARCH' = ScanLines(lines, ArchNone)
  /\ setAbi' = IF NotArch(ARCH') THEN "raised" ELSE "returned"
  /\ UNCHANGED <<environ, lines>>
  /\ UNCHANGED <<addr2lineCache, objdumpCache, demangleCache, req, res, io>>
  /\ UNCHANGED exchVars
  /\ UNCHANGED poolVars

NextAbi == SetAbi

SpecAbi == InitAbi /\ [][NextAbi]_vars

\* A line that ends the scan: an ABI line, a native-frame line, or a
\* sanitizer line with more than 8 hexadecimal digits.
EndsScan(line) == line.abi # NoMatch \/ line.trace # 0 \/ line.asan > 8

\* C10 (as amended): SetAbi sets the architecture to exactly the string of
\* an ABI line, and returns, when that string is not empty and no line
\* before it is a native-frame line or a sanitizer line with more than 8
\* hexadecimal digits; the lines after it, and sanitizer lines with at most
\* 8 digits before it, make no difference.
C10_FirstEndingAbiLineSetsArch ==
  setAbi # "not called" =>
    \A i \in 1..Len(lines) :
      (/\ lines[i].abi \notin {NoMatch, ""}
       /\ \A j \in 1..(i - 1) : ~EndsScan(lines[j]))
        => (ARCH = lines[i].abi /\ setAbi = "returned")

\* SetAbi was given a sanitizer line with 8 digits, then an ABI line, then a
\* native-frame line with 16 digits.
C10_Witness ==
  /\ setAbi # "not called"
  /\ Len(lines) = 3
  /\ lines[1] = LogLine(NoMatch, 0, 8)
  /\ lines[2] = LogLine("x86", 0, 0)
  /\ lines[3] = LogLine(NoMatch, 16, 0)

\* C10 (as claimed): for every list of log lines that contains a line with
\* an explicit ABI statement, SetAbi sets the architecture to exactly that
\* string, whichever other lines are present, before or after it.
C10_AnyAbiLineSetsArch ==
  setAbi # "not called" =>
    \A i \in 1..Len(lines) :
      (/\ lines[i].abi # NoMatch
       /\ \A j \in 1..(i - 1) : lines[j].abi = NoMatch)
        => ARCH = lines[i].abi

\* The line matches none of the three patterns.
MatchesNothing(line) == line.abi = NoMatch /\ line.trace = 0 /\ line.asan = 0

\* A sanitizer line and nothing else, with at most 8 digits, with more.
ShortAsan(line) ==
  line.abi = NoMatch /\ line.trace = 0 /\ line.asan > 0 /\ line.asan <= 8
LongAsan(line) == line.abi = NoMatch /\ line.trace = 0 /\ line.asan > 8

\* The architectures by width.
Archs32 == {"arm", "mips", "x86"}
Archs64 == {"arm64", "mips64", "x86_64"}

\* C11: a sanitizer line with at most 8 hex digits is only provisional: when
\* one or more such lines are followed by a sanitizer line with more than 8
\* hex digits, SetAbi ends with the 64-bit architecture (hint x86 gives
\* x86_64) whatever comes after that line; when the lines are exhausted with
\* only sanitizer lines of at most 8 digits seen, it ends with the 32-bit
\* architecture.
C11_ShortSanitizerLineIsProvisional ==
  setAbi # "not called" =>
    /\ \A i \in 2..Len(lines) :
         (/\ LongAsan(lines[i])
          /\ \A j \in 1..(i - 1) : ShortAsan(lines[j]))
           => /\ ARCH \in Archs64
              /\ environ["ANDROID_TOOLCHAIN"] = "linux-x86/x86/bin"
                   => ARCH = "x86_64"
    /\ (Len(lines) > 0 /\ \A j \in 1..Len(lines) : ShortAsan(lines[j]))
         => ARCH \in Archs32

\* C12: for a log with no explicit ABI whose first matching line is a
\* native-frame line, and for every setting of the two toolchain variables,
\* an 8-hex-digit address makes SetAbi yield a 32-bit architecture, the one
\* hinted at (second-architecture variable first, then the primary one, arm
\* when there is no hint), and a 16-hex-digit address the corresponding
\* 64-bit architecture (arm64 when there is no hint).
C12_NativeFrameWidthDecidesTheArch ==
  setAbi # "not called" =>
    \A i \in 1..Len(lines) :
      (/\ \A j \in 1..Len(lines) : lines[j].abi = NoMatch
       /\ lines[i].trace # 0
       /\ \A j \in 1..(i - 1) : MatchesNothing(lines[j]))
        => /\ lines[i].trace = 8 => ARCH \in Archs32
           /\ lines[i].trace = 16 => ARCH \in Archs64

NoneRecord == <<None, None, None>>

\* C6: SymbolInformationForSet called with N addresses for a library whose
\* file does not exist, neither under the symbols directory nor as a literal
\* path, returns a mapping with all N addresses present, each bound to
\* exactly one record (None, None, None).
C6_MissingLibraryYieldsAllNoneRecords ==
  (req.fn = "SymbolInformationForSet" /\ req.lib = LIBGONE)
    => /\ res.kind = "dict"
       /\ DOMAIN res.dict = req.addrs
       /\ \A a \in req.addrs : res.dict[a] = <<NoneRecord>>

\* C7: for every call of SymbolInformationForSet with a non-empty library
\* and address set, every requested address is a key of the returned
\* mapping, whatever each sub-resolver produced; stated here for the library
\* whose file exists, so that the line resolver did resolve the addresses and
\* only the disassembly scan decides how many of them were matched.
C7_EveryRequestedAddressIsAKey ==
  (req.fn = "SymbolInformationForSet" /\ req.lib = LIBC)
    => /\ res.kind = "dict"
       /\ DOMAIN res.dict = req.addrs

\* C8: the record sequence of an address is never empty: SymbolInformation
\* returns a non-empty list for every library and address, exactly one
\* (None, None, None) record when the library is empty or missing, and every
\* value of a mapping returned by SymbolInformationForSet is a non-empty
\* list, also when the line tool answered with zero records.
C8_RecordSequenceNeverEmpty ==
  /\ req.fn = "SymbolInformation"
       => /\ res.kind = "list"
          /\ res.list # <<>>
          /\ req.lib \in {"", LIBGONE, LIBDIR} => res.list = <<NoneRecord>>
  /\ (req.fn = "SymbolInformationForSet" /\ res.kind = "dict")
       => \A a \in DOMAIN res.dict : res.dict[a] # <<>>

\* SymbolInformationForSet returned a mapping for a batch with an address
\* for which the symbolizer delivered no record at all.
C8_Witness ==
  /\ req.fn = "SymbolInformationForSet"
  /\ res.kind = "dict"
  /\ \E a \in req.addrs :
       /\ a \in DOMAIN res.dict
       /\ req.lib \in DOMAIN addr2lineCache
       /\ a \in DOMAIN addr2lineCache[req.lib]
       /\ addr2lineCache[req.lib][a] = <<>>

\* C9: requesting symbol information twice in a row returns identical
\* results, and the second request performs no external-tool I/O: no
\* acquire of a channel, no write to one, no spawn of the disassembler; also
\* for addresses the disassembly scan did not match and for libraries whose
\* file was not found.
C9_RepeatedRequestIsACacheHit ==
  [][(req.fn # "none" /\ req' = req) => (res' = res /\ io' = NoIO)]_vars

(***************************************************************************)
(* The symbol lookup: the merge of the two resolvers' results.             *)
(***************************************************************************)
\* What the two caches hold for an address of the requested library after
\* the call: the line resolver's records, the disassembly resolver's pair.
ChainOf(a) ==
  IF req.lib \in DOMAIN addr2lineCache /\ a \in DOMAIN addr2lineCache[req.lib]
  THEN addr2lineCache[req.lib][a] ELSE <<>>
HasPair(a) ==
  req.lib \in DOMAIN objdumpCache /\ a \in DOMAIN objdumpCache[req.lib]
PairOf(a) == objdumpCache[req.lib][a]

\* The third field of every record of an address: the symbol alone when the
\* offset is 0, symbol+N otherwise, None when the scan did not match it.
ObjectFieldOf(a) ==
  IF ~HasPair(a) THEN None
  ELSE IF PairOf(a)[2] = 0 THEN PairOf(a)[1]
  ELSE <<PairOf(a)[1][1], "+", PairOf(a)[2]>>

\* The records of an address are the pairs of a chain, in its order, each
\* with the same object field.
RecordsFollow(a, chain) ==
  /\ Len(res.dict[a]) = Len(chain)
  /\ \A i \in 1..Len(chain) :
       res.dict[a][i] = <<chain[i][1], chain[i][2], ObjectFieldOf(a)>>

\* C14 (as amended): in the mapping returned by SymbolInformationForSet the
\* record sequence of each address has the length and order of the line
\* resolver's chain for it when that chain is not empty, and is the one
\* record (None, None, object field) when it is empty; every record of an
\* address carries the same object_symbol_with_offset, the symbol alone when
\* the offset is 0, symbol+N otherwise.
C14_RecordsFollowTheInlineChain ==
  (req.fn = "SymbolInformationForSet" /\ res.kind = "dict")
    => \A a \in DOMAIN res.dict :
         RecordsFollow(a, IF ChainOf(a) = <<>> THEN <<<<None, None>>>>
                          ELSE ChainOf(a))

\* The batch {4, 8} of libc.so: two frames for 4, which lies 4 bytes into f,
\* one frame for 8, where g starts.
C14_Witness ==
  /\ req = [fn |-> "SymbolInformationForSet", lib |-> LIBC, addrs |-> {"4", "8"}]
  /\ res.kind = "dict"
  /\ DOMAIN res.dict = {"4", "8"}
  /\ Len(res.dict["4"]) = 2
  /\ res.dict["4"][1] = <<SymbolLine("4", 1), LocationLine("4", 1), <<"f", "+", 4>>>>
  /\ res.dict["4"][2] = <<SymbolLine("4", 2), LocationLine("4", 2), <<"f", "+", 4>>>>
  /\ res.dict["8"] = <<<<SymbolLine("8", 1), LocationLine("8", 1), <<"g">>>>>>

\* C14 (as claimed): the record sequence of each address has the same
\* length and order as the line resolver's chain for that address, and every
\* record carries the same object_symbol_with_offset.
C14_RecordsAreTheInlineChain ==
  (req.fn = "SymbolInformationForSet" /\ res.kind = "dict")
    => \A a \in DOMAIN res.dict : RecordsFollow(a, ChainOf(a))

(***************************************************************************)
(* SpecSpawn: the symbol lookup when a tool cannot be started.             *)
(***************************************************************************)
\* subprocess.Popen raises (OSError: the binary is missing, fork fails) and
\* nothing between it and the caller of the public function catches it.
Raised == [kind |-> "raise", dict |-> EmptyDict, list |-> <<>>]

Functions == {"SymbolInformationForSet", "SymbolInformation"}

\* The batches a public function passes on: SymbolInformation asks for
\* set([addr]).
BatchesOf(fn) ==
  IF fn = "SymbolInformation" THEN {{a} : a \in Addrs} ELSE Batches

\* Popen raises in SpawnProcess, called by GetProcess on line 89 for the
\* command of line 283: the library is registered in the line cache (line
\* 271), GetProcess has evicted what it had to and has pooled nothing.
SymbolizerSpawnFails ==
  \E fn \in Functions, lib \in Libs :
    \E unique_addrs \in BatchesOf(fn) :
      LET st == EvictWhileTooManyOpen(
                  [lru |-> lru[ADDR2LINE], cmd2pipe |-> cmd2pipe,
                   alive |-> alive])
      IN  /\ ToWrite(lib, unique_addrs) # <<>>
          /\ ~Pooled(SymbolizerCmd(SymbolsPath(lib)))
          /\ req' = [fn |-> fn, lib |-> lib, addrs |-> unique_addrs]
          /\ res' = Raised
          /\ io' = [acquires |-> 1, written |-> <<>>, objdumps |-> <<>>]
          /\ addr2lineCache' = DictPut(addr2lineCache, lib,
                                       AddrCacheOf(addr2lineCache, lib))
          /\ lru' = [lru EXCEPT ![ADDR2LINE] = st.lru]
          /\ cmd2pipe' = st.cmd2pipe
          /\ alive' = st.alive
          /\ UNCHANGED <<objdumpCache, spawned, ARCH, objdump, pc, call,
                         useOrder, ret, nHits, nUsed, closes>>
          /\ UNCHANGED <<demangleCache, environ, lines, setAbi>>
  /\ UNCHANGED exchVars

\* Popen raises on line 396: the line resolver has done its work, the
\* library is registered in the disassembly cache (line 363), nothing is
\* added to it.
ObjdumpRaises(lib, unique_addrs, outcome) ==
  LET line == CallLlvmSymbolizerForSet(lib, unique_addrs, outcome)
  IN  [ret |-> Raised,
       lineCache |-> line.cache,
       dumpCache |-> DictPut(objdumpCache, lib, AddrCacheOf(objdumpCache, lib)),
       io |-> [acquires |-> line.acquires, written |-> line.written,
               objdumps |-> <<>>]]

\* The call gets as far as line 396.
ReachesObjdumpPopen(lib, unique_addrs, outcome) ==
  /\ ~Falsy(CallLlvmSymbolizerForSet(lib, unique_addrs, outcome))
  /\ CallObjdumpForSet(lib, unique_addrs).objdumps # <<>>

ObjdumpRaisesIn(fn, lib, unique_addrs, outcome) ==
  /\ ReachesObjdumpPopen(lib, unique_addrs, outcome)
  /\ Returns(fn, lib, unique_addrs, ObjdumpRaises(lib, unique_addrs, outcome))

\* A public call in which the symbolizer answers and llvm-objdump cannot be
\* started.
ObjdumpSpawnFails ==
  \E fn \in Functions, lib \in Libs :
    \E unique_addrs \in BatchesOf(fn) :
      ObjdumpRaisesIn(fn, lib, unique_addrs,
                      [a \in {ToWrite(lib, unique_addrs)[i] :
                                i \in 1..Len(ToWrite(lib, unique_addrs))} |-> "ok"])

NextSpawn ==
  \/ NextSym
  \/ SymbolizerSpawnFails
  \/ ObjdumpSpawnFails

SpecSpawn == InitSym /\ [][NextSpawn]_vars

\* C15: a failure inside a sub-resolver never raises past
\* SymbolInformationForSet / SymbolInformation: when spawning the external
\* process fails inside the pool, or when the disassembler cannot be
\* spawned, the driver returns a result for the library instead of
\* propagating the exception.
C15_NoSpawnFailurePropagates ==
  req.fn \in Functions => res.kind \in {"None", "dict", "list"}

(***************************************************************************)
(* SpecExchange: the loop of CallLlvmSymbolizerForSet, lines 287-310,      *)
(* statement by statement, against a running llvm-symbolizer.              *)
(***************************************************************************)
\* The line "\n" written to the child, and the events recorded per address.
BlankInput == ""
WriteAddress == "write address"
WriteBlank == "write blank"
Read == "read"

\* "first = False" (line 305) left out: first stays what it was.
FirstKept(f) == f

\* "first = False", line 305
FirstAfterSentinel(f) == FALSE

\* The pairs llvm-symbolizer prints for an address, innermost frame first.
PairsOf(a) ==
  [i \in 1..Frames(HexVal(Digits(a))) |-> <<SymbolLine(a, i), LocationLine(a, i)>>]

\* An event more in the history of the address being asked.
Noted(event) == [hist EXCEPT ![Head(x_addrs)] = Append(@, event)]

\* The state at line 287 with the uncached addresses of a batch, the child
\* idle and both pipes empty.
InitExchange ==
  /\ PoolIdle
  /\ ARCH = "arm64"
  /\ SymFresh
  /\ AbiIdle
  /\ xpc = "write"
  /\ x_addrs \in {Sorted(S) : S \in Batches}
  /\ stdin = <<>>
  /\ stdout = <<>>
  /\ x_records = <<>>
  /\ x_first = FALSE
  /\ x_symbol = <<>>
  /\ stored = EmptyDict
  /\ hist = EmptyDict

\* Lines 289-292: child.stdin.write("0x%s\n" % addr); records = []; first = True
XWriteAddress ==
  /\ xpc = "write"
  /\ stdin' = Append(stdin, Head(x_addrs))
  /\ x_records' = <<>>
  /\ x_first' = TRUE
  /\ hist' = DictPut(hist, Head(x_addrs), <<WriteAddress>>)
  /\ xpc' = "read symbol"
  /\ UNCHANGED <<x_addrs, stdout, x_symbol, stored>>

\* Lines 294-296: symbol = child.stdout.readline().strip(); if not symbol: break
XReadSymbol ==
  /\ xpc = "read symbol"
  /\ stdout # <<>>
  /\ x_symbol' = Head(stdout)
  /\ stdout' = Tail(stdout)
  /\ hist' = Noted(Read)
  /\ xpc' = IF Head(stdout) = Blank THEN "store" ELSE "read location"
  /\ UNCHANGED <<x_addrs, stdin, x_records, x_first, stored>>

\* Lines 297-299: location = child.stdout.readline().strip();
\* records.append((symbol, location)); if first: ...
XReadLocation ==
  /\ xpc = "read location"
  /\ stdout # <<>>
  /\ x_records' = Append(x_records, <<x_symbol, Head(stdout)>>)
  /\ stdout' = Tail(stdout)
  /\ hist' = Noted(Read)
  /\ xpc' = IF x_first THEN "sentinel" ELSE "read symbol"
  /\ UNCHANGED <<x_addrs, stdin, x_first, x_symbol, stored>>

\* Lines 303-305: child.stdin.write("\n"); first = False
XWriteSentinel ==
  /\ xpc = "sentinel"
  /\ stdin' = Append(stdin, BlankInput)
  /\ x_first' = FirstAfterSentinel(x_first)
  /\ hist' = Noted(WriteBlank)
  /\ xpc' = "read symbol"
  /\ UNCHANGED <<x_addrs, stdout, x_records, x_symbol, stored>>

\* Lines 309-310 and the next turn of the for loop.
XStore ==
  /\ xpc = "store"
  /\ stored' = DictPut(stored, Head(x_addrs), x_records)
  /\ x_addrs' = Tail(x_addrs)
  /\ xpc' = IF Tail(x_addrs) = <<>> THEN "done" ELSE "write"
  /\ UNCHANGED <<stdin, stdout, x_records, x_first, x_symbol, hist>>

\* llvm-symbolizer takes one line of its input: for an address it prints the
\* pairs of the address, for a blank line one blank line.
ToolAnswers ==
  /\ stdin # <<>>
  /\ stdin' = Tail(stdin)
  /\ stdout' = stdout \o (IF Head(stdin) = BlankInput THEN <<Blank>>
                          ELSE FrameLines(Head(stdin), 1,
                                          Frames(HexVal(Digits(Head(stdin))))))
  /\ UNCHANGED <<xpc, x_addrs, x_records, x_first, x_symbol, stored, hist>>

NextExchange ==
  /\ \/ XWriteAddress
     \/ XReadSymbol
     \/ XReadLocation
     \/ XWriteSentinel
     \/ XStore
     \/ ToolAnswers
  /\ UNCHANGED <<ARCH, addr2lineCache, objdumpCache, demangleCache, req, res, io,
                 environ, lines, setAbi>>
  /\ UNCHANGED poolVars

\* The interpreter goes on running the loop and the child goes on running.
SpecExchange ==
  InitExchange /\ [][NextExchange]_vars /\ WF_vars(NextExchange)

\* The events of one finished exchange that read n pairs: the address, two
\* reads, the blank line, and reads up to the blank symbol line.
Protocol(n) ==
  <<WriteAddress, Read, Read, WriteBlank>> \o [i \in 1..(2 * n - 1) |-> Read]

\* What is true of the exchanges made so far.
ExchangesInOrder ==
  /\ \A a \in DOMAIN stored :
       /\ stored[a] = PairsOf(a)
       /\ hist[a] = Protocol(Len(PairsOf(a)))
  /\ xpc \in {"write", "done"} => (stdin = <<>> /\ stdout = <<>>)

\* C16: per uncached address the line resolver writes the address once,
\* writes the blank-line sentinel exactly once, immediately after reading
\* the first pair and before reading any further line, and stops at the
\* first blank symbol line; against a tool that answers each address with
\* one or more pairs and each blank input with one blank line, every
\* exchange terminates, leaves no unread output on the channel, and the
\* records stored for an address are exactly its pairs in the tool's order.
C16_ExchangeRunsToDone ==
  /\ [](ExchangesInOrder)
  /\ <>(xpc = "done" /\ x_addrs = <<>>)

\* The batch {4, 8} is done: two pairs stored for 4, the sentinel written
\* after the first of them, one pair stored for 8.
C16_Witness ==
  /\ xpc = "done"
  /\ DOMAIN stored = {"4", "8"}
  /\ Len(stored["4"]) = 2
  /\ hist["4"] = <<WriteAddress, Read, Read, WriteBlank, Read, Read, Read>>
  /\ hist["8"] = <<WriteAddress, Read, Read, WriteBlank, Read>>

(***************************************************************************)
(* The symbol lookup: the line cache.                                      *)
(***************************************************************************)
\* The elements of a list.
SeqSet(sq) == {sq[i] : i \in 1..Len(sq)}

\* C17: when a channel I/O failure occurs while the line resolver queries
\* one address of a batch, that address gets the single degraded record
\* (None, library name + error text), the remaining addresses of the batch
\* are still queried, and the degraded record is written to the line cache
\* like a successful one, so that no later call writes that address to the
\* tool again: every call writes exactly the addresses of its batch the
\* cache does not hold, every address written is in the cache afterwards
\* with the tool's pairs, no record, or the degraded record, and what the
\* cache held it still holds.
C17_DegradedRecordIsCached ==
  [][req'.fn \in Functions =>
       LET pre == AddrCacheOf(addr2lineCache, req'.lib)
           post == AddrCacheOf(addr2lineCache', req'.lib)
           W == SeqSet(io'.written)
       IN  /\ W \cap DOMAIN pre = {}
           /\ W \subseteq DOMAIN post
           /\ W # {} => W = req'.addrs \ DOMAIN pre
           /\ \A a \in DOMAIN pre : a \in DOMAIN post /\ post[a] = pre[a]
           /\ \A a \in W :
                post[a] \in {PairsOf(a), <<>>, <<Degraded(req'.lib)>>}]_vars

\* The batch {4, 8} of libc.so was asked, the exchange for 4 raised IOError
\* and 8 was asked and answered after it.
C17_Witness ==
  /\ req.lib = LIBC
  /\ req.addrs = {"4", "8"}
  /\ io.written = <<"4", "8">>
  /\ addr2lineCache[LIBC]["4"] = <<Degraded(LIBC)>>
  /\ addr2lineCache[LIBC]["8"] = PairsOf("8")
  /\ res.kind = "dict"
  /\ res.dict["4"][1][1] = None
  /\ res.dict["4"][1][2] = <<"***Error", LIBC>>

(***************************************************************************)
(* SpecOrder: batches of address strings of different lengths.             *)
(***************************************************************************)
\* Addresses as a log may give them: "10" is 0x10, where h starts.
MixedAddrs == {"4", "8", "10"}
MixedBatches ==
  {S \in SUBSET MixedAddrs : 1 <= Cardinality(S) /\ Cardinality(S) <= MaxBatch}

\* A caller asks SymbolInformationForSet for a batch of such addresses of
\* libc.so; the symbolizer answers every address.
CallSymbolInformationForMixedSet ==
  \E unique_addrs \in MixedBatches :
    Returns("SymbolInformationForSet", LIBC, unique_addrs,
            SymbolInformationForSet(LIBC, unique_addrs,
                                    [a \in unique_addrs |-> "ok"]))

NextOrder == CallSymbolInformationForMixedSet

SpecOrder == InitSym /\ [][NextOrder]_vars

\* The numeric values of a list of address strings ascend.
Ascending(sq) ==
  \A i, j \in 1..Len(sq) : i < j => HexVal(Digits(sq[i])) < HexVal(Digits(sq[j]))

\* C18: within one batch the uncached addresses are processed in ascending
\* numeric order by both resolvers: the line resolver writes them to the
\* tool in ascending numeric order, and the disassembly resolver's range
\* starts at the numerically lowest address and stops 8 past the highest;
\* for any set of hexadecimal address strings, also of different lengths,
\* and also after some addresses were served from the cache.
C18_AscendingNumericOrder ==
  req.fn = "SymbolInformationForSet" =>
    /\ Ascending(io.written)
    /\ \A i \in 1..Len(io.objdumps) :
         /\ io.objdumps[i][1] + 8 <= io.objdumps[i][2]
         /\ \A a \in req.addrs :
              HasPair(a) \/ (/\ io.objdumps[i][1] <= StripPC(HexVal(Digits(a)))
                             /\ StripPC(HexVal(Digits(a))) + 8 <= io.objdumps[i][2])

(***************************************************************************)
(* The symbol lookup: the disassembly cache.                               *)
(***************************************************************************)
\* C19: for every requested address the disassembly resolver matches, the
\* recorded pair is (symbol of the function the instruction lies in,
\* stripped address minus that function's true start), the true start being
\* the header's address minus the offset of its +0x suffix; the offset is
\* never negative, and result and cache are keyed by the original address
\* string, not by the stripped value.
C19_PairIsFunctionAndOffset ==
  \A lib \in DOMAIN objdumpCache :
    \A a \in DOMAIN objdumpCache[lib] :
      LET v == StripPC(HexVal(Digits(a))) IN
        /\ a \in Addrs
        /\ v \in Instructions
        /\ objdumpCache[lib][a] = <<FunctionName(v), v - FunctionStart(v)>>
        /\ objdumpCache[lib][a][2] >= 0
        /\ (req.lib = lib /\ a \in req.addrs /\ res.kind = "dict")
             => (a \in DOMAIN res.dict /\ res.dict[a][1][3] = ObjectFieldOf(a))

\* On arm the address 5 was asked alone: the range began at 4, inside f, so
\* the header read "f+0x4", and the pair is kept under "5".
C19_Witness ==
  /\ ARCH = "arm"
  /\ req.addrs = {"5"}
  /\ io.objdumps = <<<<4, 12>>>>
  /\ LIBC \in DOMAIN objdumpCache
  /\ DOMAIN objdumpCache[LIBC] = {"5"}
  /\ objdumpCache[LIBC]["5"] = <<<<"f">>, 4>>

(***************************************************************************)
(* The pools: a call for a pooled command.                                 *)
(***************************************************************************)
\* The entries of a list other than the one of a command, in their order.
Others(l, cmd) == SelectSeq(l, LAMBDA i : i[1] # cmd)

\* C20: GetProcess called with a command that is already pooled returns the
\* channel registered for it, moves it to the most-recently-used position,
\* spawns no process, evicts and terminates no channel, and leaves the set
\* of pooled commands and the relative order of the other channels
\* unchanged.
C20_HitMovesToFrontOnly ==
  [][nHits' = nHits + 1 =>
       /\ call'.kind = "hit"
       /\ call'.cmd \in DOMAIN cmd2pipe
       /\ ret' = cmd2pipe[call'.cmd]
       /\ pc' = "idle"
       /\ lru'[call'.pool][1] = <<call'.cmd, ret'>>
       /\ Others(lru'[call'.pool], call'.cmd) = Others(lru[call'.pool], call'.cmd)
       /\ Len(lru'[call'.pool]) = Len(lru[call'.pool])
       /\ \A p \in Pools \ {call'.pool} : lru'[p] = lru[p]
       /\ cmd2pipe' = cmd2pipe
       /\ spawned' = spawned
       /\ alive' = alive]_vars

\* A call has returned the channel of a pooled command that was not the
\* most recently used one of three.
C20_Witness ==
  /\ pc = "idle"
  /\ call.kind = "hit"
  /\ ret = call.pipe
  /\ Len(call.lruAtCall) >= 3
  /\ call.lruAtCall[3] = <<call.cmd, call.pipe>>
  /\ lru[call.pool][1] = <<call.cmd, call.pipe>>
  /\ lru[call.pool][2] = call.lruAtCall[1]
  /\ lru[call.pool][3] = call.lruAtCall[2]

(***************************************************************************)
(* The symbol lookup: what the scan of the disassembly finds.              *)
(***************************************************************************)
\* C22 (as claimed): when llvm-objdump has been run for a batch, every
\* address of the batch whose stripped value is the address of an
\* instruction line of the output has its pair, whatever the other
\* addresses of the batch are.
C22_NoMatchedAddressIsLeftOut ==
  (req.fn = "SymbolInformationForSet" /\ io.objdumps # <<>>) =>
    \A a \in req.addrs :
      LET v == StripPC(HexVal(Digits(a)))
          range == io.objdumps[1]
      IN  (v \in Instructions /\ range[1] <= v /\ v < range[2]) =>
            /\ req.lib \in DOMAIN objdumpCache
            /\ a \in DOMAIN objdumpCache[req.lib]

(***************************************************************************)
(* The pools: two instances of one class.                                  *)
(***************************************************************************)
\* The commands of a list of (command, pipe) entries.
CmdsOf(l) == {l[i][1] : i \in 1..Len(l)}

\* C23 (as claimed): between two GetProcess calls, the commands of a pool's
\* _cmd2pipe are exactly the commands of that pool's own _lru, each once,
\* and every channel of a pool's _lru was spawned by that pool.
C23_PoolsAreIsolated ==
  (pc = "idle" /\ closes = 0) =>
    \A pool \in Pools :
      /\ DOMAIN cmd2pipe = CmdsOf(lru[pool])
      /\ Cardinality(CmdsOf(lru[pool])) = Len(lru[pool])
      /\ \A p \in PipesOf(lru[pool]) : p[1] = pool

(***************************************************************************)
(* SpecCache: the three caches over the life of the process.               *)
(***************************************************************************)
\* The libraries of the lookups whose batches and tool answers vary, and
\* the addresses asked of them: 5 lies inside the instruction at 4.
CacheLibs == {LIBC, LIBGONE}
CacheBatches == {S \in Batches : S \subseteq {"5", "8"}}

\* The mangled symbols a caller hands to CallCppFilt.
Mangled == {"_Z1fv"}

\* What llvm-cxxfilt prints for a mangled symbol.
Demangled(mangled_symbol) == IF mangled_symbol = "_Z1fv" THEN "f()" ELSE mangled_symbol

\* A string a public function returned.
ReturnStr(t) == [kind |-> "str", dict |-> EmptyDict, list |-> <<t>>]

\* CallCppFilt(mangled_symbol): what it returns, the cache it leaves and
\* the GetProcess calls it made. The demangler child answers ("ok"), or it
\* has died and readline returns "" ("eof").
CallCppFilt(mangled_symbol, outcome) ==
  LET demangled_symbol == IF outcome = "ok" THEN Demangled(mangled_symbol) ELSE ""
  IN  IF mangled_symbol \in DOMAIN demangleCache
      THEN [ret |-> ReturnStr(demangleCache[mangled_symbol]),
            cache |-> demangleCache, acquires |-> 0]
      ELSE [ret |-> ReturnStr(demangled_symbol),
            cache |-> DictPut(demangleCache, mangled_symbol, demangled_symbol),
            acquires |-> 1]

\* The state a call of CallCppFilt leaves.
CppFiltReturns(mangled_symbol, r) ==
  /\ req' = [fn |-> "CallCppFilt", lib |-> "", addrs |-> {mangled_symbol}]
  /\ res' = r.ret
  /\ io' = [NoIO EXCEPT !.acquires = r.acquires]
  /\ demangleCache' = r.cache
  /\ IF r.acquires > 0
     THEN LET g == GetProcess(CPPFILT, CppFiltCmd)
          IN  /\ cmd2pipe' = g.cmd2pipe
              /\ lru' = g.lru
              /\ alive' = g.alive
              /\ spawned' = g.spawned
     ELSE UNCHANGED <<cmd2pipe, lru, alive, spawned>>
  /\ UNCHANGED <<ARCH, objdump, pc, call, useOrder, ret, nHits, nUsed, closes>>
  /\ UNCHANGED <<addr2lineCache, objdumpCache, environ, lines, setAbi>>
  /\ UNCHANGED exchVars

\* The number of the other libraries looked up so far.
OthersUsed == Cardinality({i \in 1..Len(OtherLibs) : OtherLibs[i] \in DOMAIN addr2lineCache})

\* The caller symbolizes a trace that runs through the ten other libraries
\* either first or not at all.
OthersDone == OthersUsed \in {0, Len(OtherLibs)}
OthersFirst == DOMAIN addr2lineCache \cap CacheLibs = {} /\ DOMAIN demangleCache = {}

\* A caller asks CallCppFilt for a symbol.
DemangleReturns(mangled_symbol, r) == OthersDone /\ CppFiltReturns(mangled_symbol, r)

CallCppFiltForSymbol ==
  \E mangled_symbol \in Mangled, outcome \in {"ok", "eof"} :
    DemangleReturns(mangled_symbol, CallCppFilt(mangled_symbol, outcome))

\* A lookup in one of the libraries whose batches vary.
LookupReturns(fn, lib, unique_addrs, r) == OthersDone /\ Returns(fn, lib, unique_addrs, r)

\* What a resolver called on its own returns: None or its dict.
ReturnOf(r) == IF r.none THEN ReturnNone ELSE ReturnDict(r.dict)

\* CallLlvmSymbolizerForSet called on its own.
LineResolverAlone(lib, unique_addrs, outcome) ==
  LET line == CallLlvmSymbolizerForSet(lib, unique_addrs, outcome)
  IN  [ret |-> ReturnOf(line), lineCache |-> line.cache,
       dumpCache |-> objdumpCache,
       io |-> [acquires |-> line.acquires, written |-> line.written,
               objdumps |-> <<>>]]

\* CallObjdumpForSet called on its own.
ObjdumpResolverAlone(lib, unique_addrs) ==
  LET dump == CallObjdumpForSet(lib, unique_addrs)
  IN  [ret |-> ReturnOf(dump), lineCache |-> addr2lineCache,
       dumpCache |-> dump.cache,
       io |-> [NoIO EXCEPT !.objdumps = dump.objdumps]]

\* The outcomes of the exchanges a call of the line resolver makes.
OutcomesFor(lib, unique_addrs) ==
  [{ToWrite(lib, unique_addrs)[i] : i \in 1..Len(ToWrite(lib, unique_addrs))} -> Outcomes]

\* A caller asks SymbolInformationForSet, one library present, one missing.
CallSymbolInformationForSetOfCacheLib ==
  \E lib \in CacheLibs, unique_addrs \in CacheBatches :
    \E outcome \in OutcomesFor(lib, unique_addrs) :
      LookupReturns("SymbolInformationForSet", lib, unique_addrs,
                    SymbolInformationForSet(lib, unique_addrs, outcome))

\* A caller asks the line resolver alone.
CallLineResolverAlone ==
  \E lib \in CacheLibs, unique_addrs \in CacheBatches :
    \E outcome \in OutcomesFor(lib, unique_addrs) :
      LookupReturns("CallLlvmSymbolizerForSet", lib, unique_addrs,
                    LineResolverAlone(lib, unique_addrs, outcome))

\* A caller asks the disassembly resolver alone.
CallObjdumpResolverAlone ==
  \E lib \in CacheLibs, unique_addrs \in CacheBatches :
    LookupReturns("CallObjdumpForSet", lib, unique_addrs,
                  ObjdumpResolverAlone(lib, unique_addrs))

\* SymbolInformation for the one address 4 of the i-th other library, each
\* of them looked up once, in their order.
LookupElsewhere(i) ==
  /\ i = OthersUsed + 1
  /\ OthersFirst
  /\ Returns("SymbolInformation", OtherLibs[i], {"4"},
             SymbolInformation(OtherLibs[i], "4", [a \in {"4"} |-> "ok"]))

CallSymbolInformationElsewhere == \E i \in 1..Len(OtherLibs) : LookupElsewhere(i)

NextCache ==
  \/ CallSymbolInformationForSetOfCacheLib
  \/ CallLineResolverAlone
  \/ CallObjdumpResolverAlone
  \/ CallSymbolInformationElsewhere
  \/ CallCppFiltForSymbol

InitCache == InitSym /\ ARCH = "arm64"

SpecCache == InitCache /\ [][NextCache]_vars

\* Every entry of the cache c (library -> address -> value) is an entry of
\* d, with the same value.
Keeps(c, d) ==
  \A lib \in DOMAIN c :
    /\ lib \in DOMAIN d
    /\ \A a \in DOMAIN c[lib] : a \in DOMAIN d[lib] /\ d[lib][a] = c[lib][a]

\* The (library, address) pairs a cache has an entry for.
EntriesOf(c) == UNION {{<<lib, a>> : a \in DOMAIN c[lib]} : lib \in DOMAIN c}

\* C21: no step of the process removes or changes an entry of the line
\* cache, of the disassembly cache or of the demangle cache; a call of the
\* line resolver adds no entry to the disassembly cache, a call of the
\* disassembly resolver adds none to the line cache, a call of the demangler
\* adds none to either, and a public lookup adds disassembly entries only
\* when it ran llvm-objdump and line entries only for the addresses it
\* wrote to llvm-symbolizer.
C21_CacheEntriesAreNeverChanged ==
  [][/\ Keeps(addr2lineCache, addr2lineCache')
     /\ Keeps(objdumpCache, objdumpCache')
     /\ \A m \in DOMAIN demangleCache :
          m \in DOMAIN demangleCache' /\ demangleCache'[m] = demangleCache[m]
     /\ req'.fn = "CallLlvmSymbolizerForSet" =>
          EntriesOf(objdumpCache') = EntriesOf(objdumpCache)
     /\ req'.fn = "CallObjdumpForSet" =>
          EntriesOf(addr2lineCache') = EntriesOf(addr2lineCache)
     /\ req'.fn = "CallCppFilt" =>
          /\ EntriesOf(addr2lineCache') = EntriesOf(addr2lineCache)
          /\ EntriesOf(objdumpCache') = EntriesOf(objdumpCache)
     /\ req'.fn # "CallCppFilt" => demangleCache' = demangleCache
     /\ io'.objdumps = <<>> =>
          EntriesOf(objdumpCache') = EntriesOf(objdumpCache)
     /\ EntriesOf(addr2lineCache') \ EntriesOf(addr2lineCache)
          = {<<req'.lib, io'.written[i]>> : i \in 1..Len(io'.written)}
    ]_vars

\* The pool was full when libc.so was first asked for, and the channel of
\* the first of the other libraries was evicted; a lookup in the missing
\* library has failed; the exchange for 5 raised IOError; the entries
\* written before all of this are there, the line cache knows 5 and the
\* disassembly cache does not, and the demangle cache has its entry.
C21_Witness ==
  /\ OthersUsed = Len(OtherLibs)
  /\ ~Pooled(SymbolizerCmd(SymbolsPath(OtherLibs[1])))
  /\ Pooled(SymbolizerCmd(SymbolsPath(LIBC)))
  /\ Len(lru[ADDR2LINE]) = _PIPE_MAX_OPEN
  /\ "4" \in DOMAIN addr2lineCache[OtherLibs[1]]
  /\ addr2lineCache[OtherLibs[1]]["4"] # <<>>
  /\ "4" \in DOMAIN objdumpCache[OtherLibs[1]]
  /\ LIBGONE \in DOMAIN addr2lineCache
  /\ LIBC \in DOMAIN addr2lineCache
  /\ DOMAIN addr2lineCache[LIBC] = {"5", "8"}
  /\ addr2lineCache[LIBC]["5"] = <<Degraded(LIBC)>>
  /\ LIBC \in DOMAIN objdumpCache
  /\ DOMAIN objdumpCache[LIBC] = {"8"}
  /\ "_Z1fv" \in DOMAIN demangleCache
  /\ demangleCache["_Z1fv"] = "f()"
  /\ req.fn = "SymbolInformationForSet"
  /\ req.lib = LIBC
  /\ io = NoIO

====
